---- MODULE Spec2Model ----
(***************************************************************************)
(* Antioch Kinetics<NumericType>::compute_mass_sources                     *)
(* (src/src/kinetics/include/antioch/kinetics.h).                          *)
(*                                                                         *)
(* A Kinetics instance holds references to a ReactionSet and to its        *)
(* ChemicalMixture and owns one work array, _net_reaction_rates.  A call   *)
(* of compute_mass_sources is modelled statement by statement, so that     *)
(* calls of several threads interleave at the reads and writes of the work *)
(* array.  NumericType is instantiated with the integers: sums and         *)
(* products are exact.  Indices are 0-based as in the source; a vector is  *)
(* a sequence, so element i of the source is element i+1 of the sequence.  *)
(***************************************************************************)
EXTENDS Integers, Sequences, FiniteSets

VARIABLES
    chem_mixture,        \* _chem_mixture: molar mass of every species
    reaction_set,        \* _reaction_set: the reactions, in order
    inst,                \* inst[t]: the Kinetics instance thread t calls
    net_reaction_rates,  \* _net_reaction_rates of every instance
    pc,                  \* pc[t]: where thread t is in compute_mass_sources
    args,                \* args[t]: the by-value / const-ref arguments
    mass_sources,        \* mass_sources[t]: the caller's output vector
    loc,                 \* loc[t]: the locals rxn, r, p, s, rate
    invocations,         \* compute_reaction_rates calls made by the call
    prev                 \* arguments and output of t's last returned call

vars == <<chem_mixture, reaction_set, inst, net_reaction_rates, pc, args,
          mass_sources, loc, invocations, prev>>

static == <<chem_mixture, reaction_set, inst>>

(***************************************************************************)
(* Bounds of the model.                                                    *)
(***************************************************************************)
MaxT == 2          \* temperatures passed by callers: -1 .. MaxT
MaxH == 1          \* entries of h_RT_minus_s_R: -MaxH .. MaxH
MaxGarbage == 1    \* stale entries of a fresh output vector: 7 .. 6+MaxGarbage

Threads == {1, 2}
Instances == {1, 2}

Vec(n, v) == [j \in 1..n |-> v]

(***************************************************************************)
(* The collaborators: mixtures and reactions.                              *)
(***************************************************************************)
Entry(id, stoich) == [id |-> id, stoich |-> stoich]

Rxn(reactants, products, k) ==
    [reactants |-> reactants, products |-> products, k |-> k]

\* A -> B
R_A_B == Rxn(<<Entry(0, 1)>>, <<Entry(1, 1)>>, 3)
\* 2A -> A + B : A is reactant and product
R_2A_AB == Rxn(<<Entry(0, 2)>>, <<Entry(0, 1), Entry(1, 1)>>, 1)
\* A + A -> B : A is listed twice
R_AA_B == Rxn(<<Entry(0, 1), Entry(0, 1)>>, <<Entry(1, 1)>>, 1)
\* A + B -> C
R_AB_C == Rxn(<<Entry(0, 1), Entry(1, 1)>>, <<Entry(2, 1)>>, 2)
\* 2A -> B
R_2A_B == Rxn(<<Entry(0, 2)>>, <<Entry(1, 1)>>, 1)
\* B -> 2A
R_B_2A == Rxn(<<Entry(1, 1)>>, <<Entry(0, 2)>>, -2)
\* A + B -> 2C
R_AB_2C == Rxn(<<Entry(0, 1), Entry(1, 1)>>, <<Entry(2, 2)>>, 1)

Mech(M, reactions) == [M |-> M, reactions |-> reactions]

Mechanisms ==
    { Mech(<<2, 4>>, <<R_A_B>>),
      Mech(<<1, 1>>, <<R_2A_AB>>),
      Mech(<<1, 2, 3>>, <<R_AA_B, R_AB_C>>),
      Mech(<<1, 2, 5>>, <<R_2A_B, R_B_2A>>),
      Mech(<<1, 2, 3>>, <<R_AB_2C>>),
      Mech(<<2, 3>>, <<>>) }

ThreadMechanisms ==
    { Mech(<<2, 4>>, <<R_A_B>>),
      Mech(<<1, 2, 3>>, <<R_AA_B, R_AB_C>>) }

\* ChemicalMixture::n_species, ChemicalMixture::M
n_species == Len(chem_mixture)

M(s) == chem_mixture[s + 1]

\* ReactionSet::n_reactions, ReactionSet::reaction
n_reactions == Len(reaction_set)

reaction(rxn) == reaction_set[rxn + 1]

\* Reaction accessors
n_reactants(rx) == Len(rx.reactants)

reactant_id(rx, r) == rx.reactants[r + 1].id

reactant_stoichiometric_coefficient(rx, r) == rx.reactants[r + 1].stoich

n_products(rx) == Len(rx.products)

product_id(rx, p) == rx.products[p + 1].id

product_stoichiometric_coefficient(rx, p) == rx.products[p + 1].stoich

(***************************************************************************)
(* ReactionSet::compute_reaction_rates: a deterministic function of the    *)
(* state passed in, one net rate per reaction.  The rate law of the model  *)
(* is k * T * (h/RT - s/R of species 0).                                   *)
(***************************************************************************)
RateLaw(rx, a) == rx.k * a.T * a.h_RT_minus_s_R[1]

compute_reaction_rates(a) == [j \in 1..n_reactions |-> RateLaw(reaction_set[j], a)]

(***************************************************************************)
(* The instance's work array.                                              *)
(***************************************************************************)
\* as if the work array were shared by all instances (a static member)
WorkArrayStatic(t) == 1

WorkArray(t) == inst[t]

\* Kinetics::Kinetics: _net_reaction_rates( reaction_set.n_reactions(), 0.0 )
\* as if the work array were not preallocated
ConstructedEmpty(rs) == <<>>

Constructed(rs) == Vec(Len(rs), 0)

(***************************************************************************)
(* What callers pass.                                                      *)
(***************************************************************************)
Temperatures == -1..MaxT

Lengths == {n_species - 1, n_species, n_species + 1}

Arguments(T, rho, R_mix, nY, nc, nh, h) ==
    [T |-> T, rho |-> rho, R_mix |-> R_mix,
     mass_fractions |-> Vec(nY, 0),
     molar_densities |-> Vec(nc, 0),
     h_RT_minus_s_R |-> Vec(nh, h)]

\* the valid calls; the calls with a scalar that is not positive; the calls
\* with vectors of every combination of lengths
CallArguments ==
    { Arguments(T, 1, 1, n_species, n_species, n_species, h) :
        T \in Temperatures, h \in -MaxH..MaxH }
    \cup
    { Arguments(T, rho, R_mix, n_species, n_species, n_species, 1) :
        T \in 0..1, rho \in 0..1, R_mix \in 0..1 }
    \cup
    { Arguments(1, 1, 1, l[1], l[2], l[3], 1) :
        l \in Lengths \X Lengths \X Lengths }

\* two threads: each calls once, with vectors of the right length
ThreadArguments ==
    { Arguments(T, 1, 1, n_species, n_species, n_species, h) :
        T \in 0..MaxT, h \in 0..MaxH }

\* the caller's output vector: the one of its last call, or another one
OutputVectors(t) ==
    {mass_sources[t]} \cup
    { Vec(n, g) : n \in Lengths, g \in 7..(6 + MaxGarbage) }

NoArguments == Arguments(1, 1, 1, 0, 0, 0, 0)

NoLocals == [rxn |-> 0, r |-> 0, p |-> 0, s |-> 0, rate |-> 0, i |-> 0]

NoCall == [valid |-> FALSE, args |-> NoArguments, out |-> <<>>]

Resting == {"idle", "returned", "precondition_violation"}

(***************************************************************************)
(* Initial states: the instances are constructed, no call was made.        *)
(***************************************************************************)
InitFor(mechanisms, bindings) ==
    /\ \E m \in mechanisms :
          /\ chem_mixture = m.M
          /\ reaction_set = m.reactions
          /\ net_reaction_rates = [k \in Instances |-> Constructed(m.reactions)]
    /\ inst \in bindings
    /\ pc = [t \in Threads |-> "idle"]
    /\ args = [t \in Threads |-> NoArguments]
    /\ mass_sources = [t \in Threads |-> <<>>]
    /\ loc = [t \in Threads |-> NoLocals]
    /\ invocations = [t \in Threads |-> 0]
    /\ prev = [t \in Threads |-> NoCall]

(***************************************************************************)
(* compute_mass_sources, statement by statement.                           *)
(***************************************************************************)
\* the caller passes its arguments and its output vector
Call(t, from, arguments) ==
    /\ pc[t] \in from
    /\ \E a \in arguments, v \in OutputVectors(t) :
          /\ args' = [args EXCEPT ![t] = a]
          /\ mass_sources' = [mass_sources EXCEPT ![t] = v]
    /\ prev' = [prev EXCEPT ![t] =
                  IF pc[t] = "returned"
                  THEN [valid |-> TRUE, args |-> args[t], out |-> mass_sources[t]]
                  ELSE @]
    /\ invocations' = [invocations EXCEPT ![t] = 0]
    /\ pc' = [pc EXCEPT ![t] = "called"]
    /\ UNCHANGED <<static, net_reaction_rates, loc>>

\* as if T were checked with antioch_assert_greater_equal
AssertionsHoldZeroT(t) ==
    /\ args[t].T >= 0
    /\ args[t].rho > 0
    /\ args[t].R_mix > 0
    /\ Len(args[t].mass_fractions) = n_species
    /\ Len(args[t].molar_densities) = n_species
    /\ Len(args[t].h_RT_minus_s_R) = n_species
    /\ Len(mass_sources[t]) = n_species
    /\ Len(net_reaction_rates[WorkArray(t)]) = n_reactions

\* the eight antioch_assert_* of lines 137-144
AssertionsHold(t) ==
    /\ args[t].T > 0
    /\ args[t].rho > 0
    /\ args[t].R_mix > 0
    /\ Len(args[t].mass_fractions) = n_species
    /\ Len(args[t].molar_densities) = n_species
    /\ Len(args[t].h_RT_minus_s_R) = n_species
    /\ Len(mass_sources[t]) = n_species
    /\ Len(net_reaction_rates[WorkArray(t)]) = n_reactions

\* a failed antioch_assert ends the call (validation build)
AssertOutcome(holds) == IF holds THEN "fill" ELSE "precondition_violation"

\* as if std::fill came before the assertions
CheckPreconditionsAfterFill(t) ==
    /\ pc[t] = "called"
    /\ mass_sources' = [mass_sources EXCEPT ![t] = Vec(Len(@), 0)]
    /\ pc' = [pc EXCEPT ![t] = AssertOutcome(AssertionsHold(t))]
    /\ UNCHANGED <<static, net_reaction_rates, args, loc, invocations, prev>>

CheckPreconditions(t) ==
    /\ pc[t] = "called"
    /\ pc' = [pc EXCEPT ![t] = AssertOutcome(AssertionsHold(t))]
    /\ UNCHANGED <<static, net_reaction_rates, args, mass_sources, loc,
                   invocations, prev>>

\* as if the std::fill were missing
NotFilled(v) == v

\* as if the std::fill stopped one element early
FilledButLast(v) == [j \in 1..Len(v) |-> IF j < Len(v) THEN 0 ELSE v[j]]

\* std::fill( mass_sources.begin(), mass_sources.end(), 0.0 )
Filled(v) == Vec(Len(v), 0)

Fill(t) ==
    /\ pc[t] = "fill"
    /\ mass_sources' = [mass_sources EXCEPT ![t] = Filled(@)]
    /\ pc' = [pc EXCEPT ![t] = "delegate"]
    /\ UNCHANGED <<static, net_reaction_rates, args, loc, invocations, prev>>

\* the call of _reaction_set.compute_reaction_rates( ..., _net_reaction_rates )
Delegate(t) ==
    /\ pc[t] = "delegate"
    /\ invocations' = [invocations EXCEPT ![t] = @ + 1]
    /\ loc' = [loc EXCEPT ![t].i = 0]
    /\ pc' = [pc EXCEPT ![t] = "rates"]
    /\ UNCHANGED <<static, net_reaction_rates, args, mass_sources, prev>>

\* compute_reaction_rates stores one net rate after the other, then returns
StoreRate(t) ==
    /\ pc[t] = "rates"
    /\ IF loc[t].i < n_reactions
       THEN /\ net_reaction_rates' =
                 [net_reaction_rates EXCEPT ![WorkArray(t)][loc[t].i + 1] =
                     compute_reaction_rates(args[t])[loc[t].i + 1]]
            /\ loc' = [loc EXCEPT ![t].i = @ + 1]
            /\ pc' = pc
       ELSE /\ loc' = [loc EXCEPT ![t].i = 0, ![t].rxn = 0]
            /\ pc' = [pc EXCEPT ![t] = "rxn"]
            /\ UNCHANGED net_reaction_rates
    /\ UNCHANGED <<static, args, mass_sources, invocations, prev>>

\* as if rate were always read from _net_reaction_rates[0]
LoadedRateFirst(t) == net_reaction_rates[WorkArray(t)][1]

\* rate = this->_net_reaction_rates[rxn]
LoadedRate(t) == net_reaction_rates[WorkArray(t)][loc[t].rxn + 1]

\* for (rxn ...) { reaction = ...; rate = _net_reaction_rates[rxn];
NextReaction(t) ==
    /\ pc[t] = "rxn"
    /\ IF loc[t].rxn < n_reactions
       THEN /\ loc' = [loc EXCEPT
                         ![t].rate = LoadedRate(t),
                         ![t].r = 0]
            /\ pc' = [pc EXCEPT ![t] = "reactants"]
       ELSE /\ loc' = [loc EXCEPT ![t].rxn = 0, ![t].s = 0]
            /\ pc' = [pc EXCEPT ![t] = "scale"]
    /\ UNCHANGED <<static, net_reaction_rates, args, mass_sources,
                   invocations, prev>>

\* as if the reactant term were not multiplied by the rate
ReactantTermNoRate(ms, rx, r, rate) ==
    [ms EXCEPT ![reactant_id(rx, r) + 1] =
        @ - reactant_stoichiometric_coefficient(rx, r)]

\* mass_sources[r_id] -= (static_cast<NumericType>(r_stoich)*rate)
ReactantTerm(ms, rx, r, rate) ==
    [ms EXCEPT ![reactant_id(rx, r) + 1] =
        @ - reactant_stoichiometric_coefficient(rx, r) * rate]

Reactant(t) ==
    /\ pc[t] = "reactants"
    /\ IF loc[t].r < n_reactants(reaction(loc[t].rxn))
       THEN /\ mass_sources' = [mass_sources EXCEPT ![t] =
                 ReactantTerm(@, reaction(loc[t].rxn), loc[t].r, loc[t].rate)]
            /\ loc' = [loc EXCEPT ![t].r = @ + 1]
            /\ pc' = pc
       ELSE /\ loc' = [loc EXCEPT ![t].r = 0, ![t].p = 0]
            /\ pc' = [pc EXCEPT ![t] = "products"]
            /\ UNCHANGED mass_sources
    /\ UNCHANGED <<static, net_reaction_rates, args, invocations, prev>>

\* as if the product term were assigned (=) instead of added (+=)
ProductTermAssigned(ms, rx, p, rate) ==
    [ms EXCEPT ![product_id(rx, p) + 1] =
        product_stoichiometric_coefficient(rx, p) * rate]

\* mass_sources[p_id] += (static_cast<NumericType>(p_stoich)*rate)
ProductTerm(ms, rx, p, rate) ==
    [ms EXCEPT ![product_id(rx, p) + 1] =
        @ + product_stoichiometric_coefficient(rx, p) * rate]

Product(t) ==
    /\ pc[t] = "products"
    /\ IF loc[t].p < n_products(reaction(loc[t].rxn))
       THEN /\ mass_sources' = [mass_sources EXCEPT ![t] =
                 ProductTerm(@, reaction(loc[t].rxn), loc[t].p, loc[t].rate)]
            /\ loc' = [loc EXCEPT ![t].p = @ + 1]
            /\ pc' = pc
       ELSE /\ loc' = [loc EXCEPT ![t].p = 0, ![t].rate = 0, ![t].rxn = @ + 1]
            /\ pc' = [pc EXCEPT ![t] = "rxn"]
            /\ UNCHANGED mass_sources
    /\ UNCHANGED <<static, net_reaction_rates, args, invocations, prev>>

\* for (s ...) mass_sources[s] *= _chem_mixture.M(s);  return
\* as if the scaling loop stopped one species early
ScaleLimitShort == n_species - 1

ScaleLimit == n_species

Scaled(ms, s) == [ms EXCEPT ![s + 1] = @ * M(s)]

Scale(t) ==
    /\ pc[t] = "scale"
    /\ IF loc[t].s < ScaleLimit
       THEN /\ mass_sources' = [mass_sources EXCEPT ![t] = Scaled(@, loc[t].s)]
            /\ loc' = [loc EXCEPT ![t].s = @ + 1]
            /\ pc' = pc
       ELSE /\ loc' = [loc EXCEPT ![t] = NoLocals]
            /\ pc' = [pc EXCEPT ![t] = "returned"]
            /\ UNCHANGED mass_sources
    /\ UNCHANGED <<static, net_reaction_rates, args, invocations, prev>>

(***************************************************************************)
(* One caller, one instance.                                               *)
(***************************************************************************)
Init == InitFor(Mechanisms, {<<1, 2>>})

Next ==
    \/ Call(1, Resting, CallArguments)
    \/ CheckPreconditions(1)
    \/ Fill(1)
    \/ Delegate(1)
    \/ StoreRate(1)
    \/ NextReaction(1)
    \/ Reactant(1)
    \/ Product(1)
    \/ Scale(1)

Spec == Init /\ [][Next]_vars

(***************************************************************************)
(* Two threads, calling one instance or one instance each.  Each thread   *)
(* makes one call; the load and the store of one element of the work      *)
(* array are single steps, and the steps of the two calls interleave       *)
(* freely.                                                                 *)
(***************************************************************************)
InitThreads == InitFor(ThreadMechanisms, {<<1, 1>>, <<1, 2>>})

NextThreads ==
    \E t \in Threads :
        \/ Call(t, {"idle"}, ThreadArguments)
        \/ CheckPreconditions(t)
        \/ Fill(t)
        \/ Delegate(t)
        \/ StoreRate(t)
        \/ NextReaction(t)
        \/ Reactant(t)
        \/ Product(t)
        \/ Scale(t)

SpecThreads == InitThreads /\ [][NextThreads]_vars

(***************************************************************************)
(* The net molar rate of a species, as the specification states it.        *)
(***************************************************************************)
RECURSIVE SumStoich(_, _)
SumStoich(entries, id) ==
    IF entries = <<>> THEN 0
    ELSE (IF Head(entries).id = id THEN Head(entries).stoich ELSE 0)
         + SumStoich(Tail(entries), id)

NetCoefficient(rx, id) == SumStoich(rx.products, id) - SumStoich(rx.reactants, id)

RECURSIVE NetMolarRate(_, _, _)
NetMolarRate(rates, id, n) ==
    IF n = 0 THEN 0
    ELSE NetMolarRate(rates, id, n - 1)
         + rates[n] * NetCoefficient(reaction_set[n], id)

ExpectedMassSources(rates) ==
    [j \in 1..Len(chem_mixture) |->
        chem_mixture[j] * NetMolarRate(rates, j - 1, Len(reaction_set))]

RECURSIVE SumSeq(_)
SumSeq(v) == IF v = <<>> THEN 0 ELSE Head(v) + SumSeq(Tail(v))

RECURSIVE Mass(_)
Mass(entries) ==
    IF entries = <<>> THEN 0
    ELSE Head(entries).stoich * chem_mixture[Head(entries).id + 1]
         + Mass(Tail(entries))

AllBalanced ==
    \A j \in 1..Len(reaction_set) :
        Mass(reaction_set[j].reactants) = Mass(reaction_set[j].products)

Listed(entries, id) == \E j \in 1..Len(entries) : entries[j].id = id

Absent(id) ==
    \A j \in 1..Len(reaction_set) :
        /\ ~Listed(reaction_set[j].reactants, id)
        /\ ~Listed(reaction_set[j].products, id)

NonZero(v) == \E j \in 1..Len(v) : v[j] /= 0

InLoops == {"rxn", "reactants", "products", "scale"}

\* the preconditions as the specification lists them
PreconditionsMet(t) ==
    /\ args[t].T > 0 /\ args[t].rho > 0 /\ args[t].R_mix > 0
    /\ Len(args[t].mass_fractions) = Len(chem_mixture)
    /\ Len(args[t].molar_densities) = Len(chem_mixture)
    /\ Len(args[t].h_RT_minus_s_R) = Len(chem_mixture)
    /\ Len(mass_sources[t]) = Len(chem_mixture)
    /\ Len(net_reaction_rates[inst[t]]) = Len(reaction_set)

(***************************************************************************)
(* C1: a returned call leaves in mass_sources[s], for every species s,     *)
(* molar_mass(s) times the sum over the reactions of rate[r] * (product    *)
(* coefficients of s minus reactant coefficients of s), rate being what    *)
(* the aggregator stored; 'A -> B' (M = 2, 4) at rate 3 gives (-6, 12),    *)
(* '2A -> A + B' (M = 1, 1) at rate 1 gives (-1, 1).                       *)
(***************************************************************************)
C1_StoichiometricSum ==
    pc[1] = "returned" =>
        /\ net_reaction_rates[inst[1]] = compute_reaction_rates(args[1])
        /\ mass_sources[1] = ExpectedMassSources(net_reaction_rates[inst[1]])
        /\ (reaction_set = <<R_A_B>> /\ chem_mixture = <<2, 4>>
              /\ net_reaction_rates[inst[1]] = <<3>>)
           => mass_sources[1] = <<-6, 12>>
        /\ (reaction_set = <<R_2A_AB>> /\ net_reaction_rates[inst[1]] = <<1>>)
           => mass_sources[1] = <<-1, 1>>

C1_Witness ==
    /\ pc[1] = "returned"
    /\ reaction_set = <<R_2A_AB>>
    /\ net_reaction_rates[inst[1]] = <<1>>
    /\ mass_sources[1] = <<-1, 1>>

(***************************************************************************)
(* C2: the output depends on the arguments of the call only: a call that   *)
(* returns with the arguments of the caller's previous returned call       *)
(* leaves the output of that call, whatever vector was passed and whatever *)
(* the calls in between left in the work array.                            *)
(***************************************************************************)
C2_OverwriteNotAccumulate ==
    (pc[1] = "returned" /\ prev[1].valid /\ prev[1].args = args[1])
        => mass_sources[1] = prev[1].out

C2_Witness ==
    /\ pc[1] = "returned"
    /\ prev[1].valid
    /\ prev[1].args = args[1]
    /\ NonZero(mass_sources[1])
    /\ mass_sources[1] = prev[1].out

(***************************************************************************)
(* C3: a call ends in the precondition violation exactly when T, rho or    *)
(* R_mix is not positive or a vector has not the length n_species (the     *)
(* work array: n_reactions); a call past the assertions, running or        *)
(* returned, satisfies all of them, and no other error outcome exists.     *)
(***************************************************************************)
C3_PreconditionRejection ==
    /\ pc[1] = "precondition_violation" => ~PreconditionsMet(1)
    /\ pc[1] \in InLoops \cup {"fill", "delegate", "rates", "returned"}
          => PreconditionsMet(1)
    /\ pc[1] \in Resting \cup InLoops \cup {"called", "fill", "delegate", "rates"}

C3_Witness ==
    /\ pc[1] = "precondition_violation"
    /\ args[1].T = 0 /\ args[1].rho > 0 /\ args[1].R_mix > 0
    /\ Len(args[1].mass_fractions) = n_species
    /\ Len(args[1].molar_densities) = n_species
    /\ Len(args[1].h_RT_minus_s_R) = n_species
    /\ Len(mass_sources[1]) = n_species

(***************************************************************************)
(* C4: mass conservation: when every reaction of the set is mass-balanced, *)
(* the entries of mass_sources of a returned call sum to zero.             *)
(***************************************************************************)
C4_MassConservation ==
    (AllBalanced /\ pc[1] = "returned") => SumSeq(mass_sources[1]) = 0

C4_Witness ==
    /\ AllBalanced
    /\ pc[1] = "returned"
    /\ Len(reaction_set) = 2
    /\ NonZero(mass_sources[1])
    /\ \E j \in 1..Len(chem_mixture) : chem_mixture[j] > 1 /\ mass_sources[1][j] /= 0

(***************************************************************************)
(* C5: scaling: when the net rates of a returned call are k times the net  *)
(* rates of the caller's previous returned call, every mass source is k    *)
(* times the mass source of that call (k = -1: reversal, k = 0: all zero). *)
(***************************************************************************)
Factors == -(MaxT * MaxH)..(MaxT * MaxH)

ScaledBy(k, v, w) == Len(v) = Len(w) /\ \A j \in 1..Len(v) : v[j] = k * w[j]

C5_ScalingLinearity ==
    (pc[1] = "returned" /\ prev[1].valid) =>
        \A k \in Factors :
            ScaledBy(k, compute_reaction_rates(args[1]),
                        compute_reaction_rates(prev[1].args))
            => ScaledBy(k, mass_sources[1], prev[1].out)

C5_Witness ==
    /\ pc[1] = "returned"
    /\ prev[1].valid
    /\ NonZero(prev[1].out)
    /\ ScaledBy(-2, compute_reaction_rates(args[1]),
                    compute_reaction_rates(prev[1].args))
    /\ ScaledBy(-2, mass_sources[1], prev[1].out)

(***************************************************************************)
(* C6: species isolation: a species listed in no reactant list and no      *)
(* product list has mass source zero after every returned call.            *)
(***************************************************************************)
C6_SpeciesIsolation ==
    pc[1] = "returned" =>
        \A id \in 0..(Len(chem_mixture) - 1) :
            Absent(id) => mass_sources[1][id + 1] = 0

C6_Witness ==
    /\ pc[1] = "returned"
    /\ Len(reaction_set) > 0
    /\ NonZero(mass_sources[1])
    /\ \E id \in 0..(Len(chem_mixture) - 1) : Absent(id) /\ mass_sources[1][id + 1] = 0

(***************************************************************************)
(* C7: two calls on one instance race on the work array and on nothing     *)
(* else: the mass sources a call returns are the stoichiometric sum for    *)
(* net rates of which each is the one its own aggregator call stored or    *)
(* the one the other call stored over it; and there is an interleaving     *)
(* (the witness) in which they differ from those of the call run alone.    *)
(***************************************************************************)
Accepted(t) == pc[t] \in InLoops \cup {"fill", "delegate", "rates", "returned"}

RacingRates(t) ==
    LET own == compute_reaction_rates(args[t])
        others == { compute_reaction_rates(args[u]) :
                      u \in { u \in Threads \ {t} : Accepted(u) /\ inst[u] = inst[t] } }
    IN  { [j \in 1..Len(reaction_set) |-> IF j \in S THEN own[j] ELSE o[j]] :
            S \in SUBSET (1..Len(reaction_set)), o \in others \cup {own} }

C7_RaceOnWorkArrayOnly ==
    inst[1] = inst[2] =>
        \A t \in Threads :
            pc[t] = "returned" =>
                \E x \in RacingRates(t) : mass_sources[t] = ExpectedMassSources(x)

C7_Witness ==
    /\ inst[1] = inst[2]
    /\ pc[1] = "returned"
    /\ mass_sources[1] /= ExpectedMassSources(compute_reaction_rates(args[1]))

(***************************************************************************)
(* C8: with one instance per thread, bound to the same reaction set and    *)
(* mixture, every call returns what it returns when run alone, under every *)
(* interleaving; a step of one thread writes neither the reaction set, nor *)
(* the mixture, nor the work array of the other thread's instance.         *)
(***************************************************************************)
C8_OwnInstanceIsolation ==
    /\ [](inst[1] /= inst[2] =>
            \A t \in Threads :
                /\ pc[t] \in InLoops \cup {"returned"}
                      => net_reaction_rates[inst[t]] = compute_reaction_rates(args[t])
                /\ pc[t] = "returned"
                      => mass_sources[t] =
                            ExpectedMassSources(compute_reaction_rates(args[t])))
    /\ [][ /\ chem_mixture' = chem_mixture
           /\ reaction_set' = reaction_set
           /\ inst[1] /= inst[2] =>
                \A t \in Threads :
                    (pc'[t] = pc[t] /\ loc'[t] = loc[t])
                        => net_reaction_rates'[inst[t]] = net_reaction_rates[inst[t]]
         ]_vars

C8_Witness ==
    /\ inst[1] /= inst[2]
    /\ pc[1] = "reactants"
    /\ pc[2] = "rates" /\ loc[2].i >= 1
    /\ net_reaction_rates[inst[1]] /= net_reaction_rates[inst[2]]
    /\ NonZero(net_reaction_rates[inst[1]])
    /\ NonZero(net_reaction_rates[inst[2]])

(***************************************************************************)
(* C9: in every state the work array has length n_reactions, no step       *)
(* changes n_species or n_reactions, and before the first call the work    *)
(* array is all zeros.                                                     *)
(***************************************************************************)
C9_WorkArrayLength ==
    /\ [](/\ Len(net_reaction_rates[inst[1]]) = Len(reaction_set)
          /\ pc[1] = "idle" =>
                net_reaction_rates[inst[1]] = [j \in 1..Len(reaction_set) |-> 0])
    /\ [][Len(chem_mixture') = Len(chem_mixture)
            /\ Len(reaction_set') = Len(reaction_set)
            /\ Len(net_reaction_rates'[inst[1]]) = Len(net_reaction_rates[inst[1]])]_vars

C9_Witness ==
    /\ pc[1] = "precondition_violation"
    /\ prev[1].valid
    /\ Len(reaction_set) = 2
    /\ Len(net_reaction_rates[inst[1]]) = 2
    /\ NonZero(net_reaction_rates[inst[1]])

(***************************************************************************)
(* C10: a rejected call changes neither mass_sources nor the work array    *)
(* and never calls the aggregator; an accepted call calls it exactly once, *)
(* when mass_sources is all zeros and before anything is accumulated.      *)
(***************************************************************************)
C10_ChecksBeforeMutation ==
    /\ [](/\ pc[1] \in {"called", "fill", "delegate", "precondition_violation"}
                => invocations[1] = 0
          /\ pc[1] \in InLoops \cup {"rates", "returned"} => invocations[1] = 1
          /\ pc[1] \in {"delegate", "rates"}
                => mass_sources[1] = [j \in 1..Len(chem_mixture) |-> 0])
    /\ [][(pc[1] = "called" /\ pc'[1] = "precondition_violation")
            => /\ mass_sources' = mass_sources
               /\ net_reaction_rates' = net_reaction_rates
               /\ invocations' = invocations]_vars

C10_Witness ==
    /\ pc[1] = "precondition_violation"
    /\ NonZero(mass_sources[1])
    /\ NonZero(net_reaction_rates[inst[1]])
    /\ invocations[1] = 0
====
